---- MODULE Spec2Model ----
(***************************************************************************)
(* User service (FastAPI + MongoDB): the five handlers of                  *)
(* routes/user_routes.py over the users collection.  Every await on the    *)
(* store is one atomic step of the handler that issues it; the synchronous *)
(* code before an await (validation, hashing) belongs to that step.        *)
(***************************************************************************)
EXTENDS Integers, Sequences, FiniteSets, TLC

\* ------------------------------------------------------------------ bounds
\* ObjectIds the store may assign (inserts that may happen in one behaviour).
MaxKeys == 2

\* ---------------------------------------------------------------- constants
HexLen == 24
OidLen == HexLen \div 2
HTTP_200_OK == 200
HTTP_201_CREATED == 201
HTTP_400_BAD_REQUEST == 400
HTTP_404_NOT_FOUND == 404
HTTP_409_CONFLICT == 409
HTTP_500_INTERNAL_SERVER_ERROR == 500

Procs == {"r1", "r2"}
Salts == {"saltA", "saltB"}

\* The request bodies the callers send (UserCreate / UserUpdate, validated).
UserInputs ==
    {[name |-> "Juan", email |-> "juan@email.com", password |-> <<"secret1">>],
     [name |-> "Maria", email |-> "maria@email.com", password |-> <<"secret2">>]}

\* ------------------------------------------------------- identifier codec
LowerHex == <<"0","1","2","3","4","5","6","7","8","9","a","b","c","d","e","f">>
UpperHex == <<"0","1","2","3","4","5","6","7","8","9","A","B","C","D","E","F">>

HexChars == {LowerHex[i] : i \in 1..16} \cup {UpperHex[i] : i \in 1..16}

\* int(c, 16) for each hexadecimal digit, of either case.
HexTable ==
    [c \in HexChars |->
        (CHOOSE i \in 1..16 : LowerHex[i] = c \/ UpperHex[i] = c) - 1]

IsHex(c) == c \in HexChars

HexVal(c) == HexTable[c]

\* bson ObjectId.is_valid on a str: length 24 and bytes.fromhex succeeds.
is_valid(user_id) ==
    /\ Len(user_id) = HexLen
    /\ \A i \in 1..HexLen : IsHex(user_id[i])

\* ObjectId(user_id): the 12 bytes the 24 hex digits denote.
ObjectId(user_id) ==
    [i \in 1..OidLen |-> 16 * HexVal(user_id[2 * i - 1]) + HexVal(user_id[2 * i])]

\* str(oid): 24 lowercase hex digits.
str(oid) ==
    [i \in 1..HexLen |->
        LowerHex[(IF i % 2 = 1 THEN oid[(i + 1) \div 2] \div 16
                               ELSE oid[i \div 2] % 16) + 1]]

NewOid_fixed(n) == [i \in 1..OidLen |-> 171]

\* The n-th ObjectId the driver generates on insert: distinct for distinct n.
NewOid(n) == [i \in 1..OidLen |-> IF i = OidLen THEN n ELSE 171]

ToUpper(s) == [i \in 1..Len(s) |-> UpperHex[HexVal(s[i]) + 1]]

\* External ids the callers send: the ids of the first two documents the
\* store assigns, the first of them in upper case too, one id cut to 23
\* characters and one with a character that is no hexadecimal digit.
ExternalIds ==
    {str(NewOid(1)), str(NewOid(1 + 1))}
        \cup {ToUpper(str(NewOid(1)))}
        \cup {SubSeq(str(NewOid(1)), 1, HexLen - 1)}
        \cup {[str(NewOid(1)) EXCEPT ![HexLen] = "g"]}

\* ------------------------------------------------------ credential hasher
hash_password_bad(password, salt) == password

\* bcrypt.hashpw(password, salt): a digest that embeds the salt.
hash_password(password, salt) == <<"$2b$12$", salt>> \o password

\* ------------------------------------------------------- store (motor)
None == [none |-> TRUE]

\* find_one: the first of the matching documents of the collection, or None.
find_one(coll, matching) ==
    IF matching = {} THEN None
    ELSE coll[CHOOSE i \in matching : \A j \in matching : i <= j]

find_by_id_any(coll, oid) == IF Len(coll) > 0 THEN coll[1] ELSE None

\* find_one({"_id": oid})
find_by_id(coll, oid) ==
    find_one(coll, {i \in 1..Len(coll) : coll[i]._id = oid})

find_by_email_none(coll, email) == None

\* find_one({"email": email})
find_by_email(coll, email) ==
    find_one(coll, {i \in 1..Len(coll) : coll[i].email = email})

find_by_email_excluding_none(coll, email, oid) == None

find_by_email_any_key(coll, email, oid) ==
    find_one(coll, {i \in 1..Len(coll) : coll[i].email = email})

\* find_one({"email": email, "_id": {"$ne": oid}})
find_by_email_excluding(coll, email, oid) ==
    find_one(coll, {i \in 1..Len(coll) :
                        coll[i].email = email /\ coll[i]._id # oid})

to_list_first(coll) == IF Len(coll) > 1 THEN <<coll[1]>> ELSE coll

\* find({}).to_list(length=None)
to_list(coll) == coll

insert_one_replacing(coll, doc) == <<doc>>

\* insert_one(doc): the document is added at the end of the collection.
insert_one(coll, doc) == Append(coll, doc)

update_one_no_digest(coll, oid, fields) ==
    [i \in 1..Len(coll) |->
        IF coll[i]._id = oid
        THEN [coll[i] EXCEPT !.name = fields.name, !.email = fields.email]
        ELSE coll[i]]

update_one_keep_name(coll, oid, fields) ==
    [i \in 1..Len(coll) |->
        IF coll[i]._id = oid
        THEN [coll[i] EXCEPT !.email = fields.email,
                             !.hashed_password = fields.hashed_password]
        ELSE coll[i]]

update_one_unique(coll, oid, fields) ==
    IF \E j \in 1..Len(coll) :
           coll[j].email = fields.email /\ coll[j]._id # oid
    THEN coll
    ELSE [i \in 1..Len(coll) |->
            IF coll[i]._id = oid
            THEN [coll[i] EXCEPT !.name = fields.name,
                                 !.email = fields.email,
                                 !.hashed_password = fields.hashed_password]
            ELSE coll[i]]

update_one_upsert(coll, oid, fields) ==
    IF \E j \in 1..Len(coll) : coll[j]._id = oid
    THEN [i \in 1..Len(coll) |->
            IF coll[i]._id = oid
            THEN [coll[i] EXCEPT !.name = fields.name,
                                 !.email = fields.email,
                                 !.hashed_password = fields.hashed_password]
            ELSE coll[i]]
    ELSE Append(coll, [_id |-> oid, name |-> fields.name,
                       email |-> fields.email,
                       hashed_password |-> fields.hashed_password])

\* update_one({"_id": oid}, {"$set": fields}): no upsert.
update_one(coll, oid, fields) ==
    [i \in 1..Len(coll) |->
        IF coll[i]._id = oid /\ \A j \in 1..(i - 1) : coll[j]._id # oid
        THEN [coll[i] EXCEPT !.name = fields.name,
                             !.email = fields.email,
                             !.hashed_password = fields.hashed_password]
        ELSE coll[i]]

deleted_count(coll, oid) ==
    IF \E i \in 1..Len(coll) : coll[i]._id = oid THEN 1 ELSE 0

delete_one_kept(coll, oid) == coll

\* delete_one({"_id": oid}): the collection without the first match.
delete_one(coll, oid) ==
    IF deleted_count(coll, oid) = 0 THEN coll
    ELSE LET k == CHOOSE i \in 1..Len(coll) :
                    /\ coll[i]._id = oid
                    /\ \A j \in 1..(i - 1) : coll[j]._id # oid
         IN  SubSeq(coll, 1, k - 1) \o SubSeq(coll, k + 1, Len(coll))

\* ------------------------------------------------ exceptions and envelope
NotFoundException_as_400(resource, identifier) ==
    [status_code |-> HTTP_400_BAD_REQUEST, exc |-> "NotFoundException",
     resource |-> resource, identifier |-> identifier]

NotFoundException(resource, identifier) ==
    [status_code |-> HTTP_404_NOT_FOUND, exc |-> "NotFoundException",
     resource |-> resource, identifier |-> identifier]

AlreadyExistsException_swapped(resource, identifier) ==
    [status_code |-> HTTP_409_CONFLICT, exc |-> "AlreadyExistsException",
     resource |-> identifier, identifier |-> resource]

AlreadyExistsException(resource, identifier) ==
    [status_code |-> HTTP_409_CONFLICT, exc |-> "AlreadyExistsException",
     resource |-> resource, identifier |-> identifier]

BadRequestException_as_404(message, identifier) ==
    [status_code |-> HTTP_404_NOT_FOUND, exc |-> "NotFoundException",
     message |-> message, identifier |-> identifier]

BadRequestException(message, identifier) ==
    [status_code |-> HTTP_400_BAD_REQUEST, exc |-> "BadRequestException",
     message |-> message, identifier |-> identifier]

\* created_user["_id"] on None: a TypeError no handler catches.
TypeError ==
    [status_code |-> HTTP_500_INTERNAL_SERVER_ERROR, exc |-> "TypeError"]

\* user["_id"] = str(user["_id"]): every other field stays as stored.
view(doc) == [doc EXCEPT !._id = str(doc._id)]

\* The success envelope around one result.
success_response(data, status_code) ==
    [status_code |-> status_code, success |-> TRUE, data |-> data]

\* The success envelope around a sequence of results, with its count.
success_list_response(data, status_code) ==
    [status_code |-> status_code, success |-> TRUE, data |-> data,
     count |-> Len(data)]

\* ------------------------------------------------------------------ state
VARIABLES
    users,       \* the users collection, in insertion order
    nextOid,     \* ObjectIds generated so far, plus one
    pc,          \* where each request's handler is suspended
    req,         \* the arguments of each request in flight
    inserted_id, \* create_user's result.inserted_id
    calls,       \* store calls each request in flight has issued
    response     \* what the latest step sent to its caller, if anything

vars == <<users, nextOid, pc, req, inserted_id, calls, response>>

NoResp == [status_code |-> 0]
NoReq == [op |-> "none"]
NoOid == <<>>
NoResponse == [request |-> NoReq, body |-> NoResp, calls |-> 0]

Init ==
    /\ users = <<>>
    /\ nextOid = 1
    /\ pc = [p \in Procs |-> "idle"]
    /\ req = [p \in Procs |-> NoReq]
    /\ inserted_id = [p \in Procs |-> NoOid]
    /\ calls = [p \in Procs |-> 0]
    /\ response = NoResponse

\* Creates that may still insert: the store assigns at most MaxKeys ids.
PendingCreates ==
    Cardinality({q \in Procs : pc[q] = "create_user_insert"})

\* The handler of request r returns (or raises) body after n store calls.
Respond(p, r, body, n) ==
    /\ response' = [request |-> r, body |-> body, calls |-> n]
    /\ pc' = [pc EXCEPT ![p] = "idle"]
    /\ req' = [req EXCEPT ![p] = NoReq]
    /\ inserted_id' = [inserted_id EXCEPT ![p] = NoOid]
    /\ calls' = [calls EXCEPT ![p] = 0]

\* The handler of request r suspends at its next store call.
Await(p, r, label, n) ==
    /\ response' = NoResponse
    /\ pc' = [pc EXCEPT ![p] = label]
    /\ req' = [req EXCEPT ![p] = r]
    /\ calls' = [calls EXCEPT ![p] = n]

\* ---------------------------------------------------------------- handlers
\* Each handler is entered with its request and runs to its first await.
get_all_users(p) ==
    /\ pc[p] = "idle"
    /\ LET found == to_list(users)
           data == [i \in 1..Len(found) |-> view(found[i])]
       IN  Respond(p, [op |-> "list"],
                   success_list_response(data, HTTP_200_OK), 1)
    /\ UNCHANGED <<users, nextOid>>

create_user_insert_before_check(p) ==
    /\ pc[p] = "idle"
    /\ (nextOid - 1) + PendingCreates < MaxKeys
    /\ \E user \in UserInputs, salt \in Salts :
        LET r == [op |-> "create", user |-> user]
            existing_user == find_by_email(users, user.email)
            user_dict ==
              [_id |-> NewOid(nextOid),
               name |-> user.name,
               email |-> user.email,
               hashed_password |-> hash_password(user.password, salt)]
        IN  IF existing_user # None
            THEN /\ users' = insert_one(users, user_dict)
                 /\ nextOid' = nextOid + 1
                 /\ Respond(p, r, AlreadyExistsException("Usuario",
                                     "email " \o user.email), 1)
            ELSE /\ Await(p, r, "create_user_insert", 1)
                 /\ UNCHANGED <<users, nextOid, inserted_id>>

create_user(p) ==
    /\ pc[p] = "idle"
    /\ (nextOid - 1) + PendingCreates < MaxKeys
    /\ \E user \in UserInputs :
        LET r == [op |-> "create", user |-> user]
            existing_user == find_by_email(users, user.email)
        IN  IF existing_user # None
            THEN Respond(p, r, AlreadyExistsException("Usuario",
                                   "email " \o user.email), 1)
            ELSE /\ Await(p, r, "create_user_insert", 1)
                 /\ UNCHANGED inserted_id
    /\ UNCHANGED <<users, nextOid>>

create_user_insert(p) ==
    /\ pc[p] = "create_user_insert"
    /\ \E salt \in Salts :
        LET user_dict ==
              [_id |-> NewOid(nextOid),
               name |-> req[p].user.name,
               email |-> req[p].user.email,
               hashed_password |-> hash_password(req[p].user.password, salt)]
        IN  /\ users' = insert_one(users, user_dict)
            /\ inserted_id' = [inserted_id EXCEPT ![p] = user_dict._id]
    /\ nextOid' = nextOid + 1
    /\ Await(p, req[p], "create_user_read", calls[p] + 1)

create_user_read(p) ==
    /\ pc[p] = "create_user_read"
    /\ LET created_user == find_by_id(users, inserted_id[p])
       IN  IF created_user = None
           THEN Respond(p, req[p], TypeError, calls[p] + 1)
           ELSE Respond(p, req[p],
                        success_response(view(created_user), HTTP_201_CREATED),
                        calls[p] + 1)
    /\ UNCHANGED <<users, nextOid>>

get_user(p) ==
    /\ pc[p] = "idle"
    /\ \E user_id \in ExternalIds :
        LET r == [op |-> "get", user_id |-> user_id] IN
        IF ~is_valid(user_id)
        THEN Respond(p, r,
                     BadRequestException("ID de usuario inválido", user_id), 0)
        ELSE LET user == find_by_id(users, ObjectId(user_id))
             IN  IF user = None
                 THEN Respond(p, r, NotFoundException("Usuario", user_id), 1)
                 ELSE Respond(p, r,
                              success_response(view(user), HTTP_200_OK), 1)
    /\ UNCHANGED <<users, nextOid>>

update_user_email_first(p) ==
    /\ pc[p] = "idle"
    /\ \E user_id \in ExternalIds, user_update \in UserInputs :
        LET r == [op |-> "update", user_id |-> user_id, user |-> user_update]
        IN
        IF ~is_valid(user_id)
        THEN Respond(p, r,
                     BadRequestException("ID de usuario inválido", user_id), 0)
        ELSE IF find_by_email_excluding(users, user_update.email,
                                        ObjectId(user_id)) # None
             THEN Respond(p, r,
                          AlreadyExistsException("Usuario",
                              "email " \o user_update.email), 1)
             ELSE IF find_by_id(users, ObjectId(user_id)) = None
                  THEN Respond(p, r, NotFoundException("Usuario", user_id), 2)
                  ELSE /\ Await(p, r, "update_user_email", 1)
                       /\ UNCHANGED inserted_id
    /\ UNCHANGED <<users, nextOid>>

update_user(p) ==
    /\ pc[p] = "idle"
    /\ \E user_id \in ExternalIds, user_update \in UserInputs :
        LET r == [op |-> "update", user_id |-> user_id, user |-> user_update]
        IN
        IF ~is_valid(user_id)
        THEN Respond(p, r,
                     BadRequestException("ID de usuario inválido", user_id), 0)
        ELSE LET existing_user == find_by_id(users, ObjectId(user_id))
             IN  IF existing_user = None
                 THEN Respond(p, r, NotFoundException("Usuario", user_id), 1)
                 ELSE /\ Await(p, r, "update_user_email", 1)
                      /\ UNCHANGED inserted_id
    /\ UNCHANGED <<users, nextOid>>

update_user_email(p) ==
    /\ pc[p] = "update_user_email"
    /\ LET email_exists ==
             find_by_email_excluding(users, req[p].user.email,
                                     ObjectId(req[p].user_id))
       IN  IF email_exists # None
           THEN Respond(p, req[p],
                        AlreadyExistsException("Usuario",
                            "email " \o req[p].user.email),
                        calls[p] + 1)
           ELSE /\ Await(p, req[p], "update_user_write", calls[p] + 1)
                /\ UNCHANGED inserted_id
    /\ UNCHANGED <<users, nextOid>>

update_user_write(p) ==
    /\ pc[p] = "update_user_write"
    /\ \E salt \in Salts :
        LET update_dict ==
              [name |-> req[p].user.name,
               email |-> req[p].user.email,
               hashed_password |-> hash_password(req[p].user.password, salt)]
        IN  users' = update_one(users, ObjectId(req[p].user_id), update_dict)
    /\ Await(p, req[p], "update_user_read", calls[p] + 1)
    /\ UNCHANGED <<nextOid, inserted_id>>

update_user_read_waiting(p) ==
    /\ pc[p] = "update_user_read"
    /\ \A q \in Procs \ {p} : pc[q] = "idle"
    /\ LET updated_user == find_by_id(users, ObjectId(req[p].user_id))
       IN  IF updated_user = None
           THEN Respond(p, req[p], TypeError, calls[p] + 1)
           ELSE Respond(p, req[p],
                        success_response(view(updated_user), HTTP_200_OK),
                        calls[p] + 1)
    /\ UNCHANGED <<users, nextOid>>

update_user_read(p) ==
    /\ pc[p] = "update_user_read"
    /\ LET updated_user == find_by_id(users, ObjectId(req[p].user_id))
       IN  IF updated_user = None
           THEN Respond(p, req[p], TypeError, calls[p] + 1)
           ELSE Respond(p, req[p],
                        success_response(view(updated_user), HTTP_200_OK),
                        calls[p] + 1)
    /\ UNCHANGED <<users, nextOid>>

delete_user(p) ==
    /\ pc[p] = "idle"
    /\ \E user_id \in ExternalIds :
        LET r == [op |-> "delete", user_id |-> user_id] IN
        IF ~is_valid(user_id)
        THEN Respond(p, r,
                     BadRequestException("ID de usuario inválido", user_id), 0)
        ELSE LET existing_user == find_by_id(users, ObjectId(user_id))
             IN  IF existing_user = None
                 THEN Respond(p, r, NotFoundException("Usuario", user_id), 1)
                 ELSE /\ Await(p, r, "delete_user_delete", 1)
                      /\ UNCHANGED inserted_id
    /\ UNCHANGED <<users, nextOid>>

delete_user_delete_checked(p) ==
    /\ pc[p] = "delete_user_delete"
    /\ users' = delete_one(users, ObjectId(req[p].user_id))
    /\ IF deleted_count(users, ObjectId(req[p].user_id)) = 0
       THEN Respond(p, req[p],
                    NotFoundException("Usuario", req[p].user_id),
                    calls[p] + 1)
       ELSE Respond(p, req[p],
                    success_response([deleted_count |-> 1], HTTP_200_OK),
                    calls[p] + 1)
    /\ UNCHANGED nextOid

delete_user_delete(p) ==
    /\ pc[p] = "delete_user_delete"
    /\ users' = delete_one(users, ObjectId(req[p].user_id))
    /\ Respond(p, req[p],
               success_response(
                   [deleted_count |->
                       deleted_count(users, ObjectId(req[p].user_id))],
                   HTTP_200_OK),
               calls[p] + 1)
    /\ UNCHANGED nextOid

Step(p) ==
    \/ get_all_users(p)
    \/ create_user(p)
    \/ create_user_insert(p)
    \/ create_user_read(p)
    \/ get_user(p)
    \/ update_user(p)
    \/ update_user_email(p)
    \/ update_user_write(p)
    \/ update_user_read(p)
    \/ delete_user(p)
    \/ delete_user_delete(p)

\* Requests are handled concurrently: any handler may take its next step.
Next == \E p \in Procs : Step(p)

Spec == Init /\ [][Next]_vars

\* The store answers the call a handler is suspended at, and the handler
\* runs on to its next await or to its response.
Continue(p) ==
    \/ create_user_insert(p)
    \/ create_user_read(p)
    \/ update_user_email(p)
    \/ update_user_write(p)
    \/ update_user_read(p)
    \/ delete_user_delete(p)

\* The external ids of the requests under fairness: the id of the first
\* document the store assigns, and that id cut to 23 characters.
FairIds == {str(NewOid(1)), SubSeq(str(NewOid(1)), 1, HexLen - 1)}

\* The requests under fairness name a user by one of FairIds, and the
\* hasher draws one salt.
FairScope ==
    /\ \A p \in Procs :
          req[p].op \in {"get", "update", "delete"}
          => req[p].user_id \in FairIds
    /\ response.request.op \in {"get", "update", "delete"}
          => response.request.user_id \in FairIds
    /\ \A i \in 1..Len(users) : users[i].hashed_password[2] = "saltA"

FairNext ==
    \E p \in Procs :
        \/ get_all_users(p) /\ FairScope'
        \/ create_user(p) /\ FairScope'
        \/ create_user_insert(p) /\ FairScope'
        \/ create_user_read(p) /\ FairScope'
        \/ get_user(p) /\ FairScope'
        \/ update_user(p) /\ FairScope'
        \/ update_user_email(p) /\ FairScope'
        \/ update_user_write(p) /\ FairScope'
        \/ update_user_read(p) /\ FairScope'
        \/ delete_user(p) /\ FairScope'
        \/ delete_user_delete(p) /\ FairScope'

\* Requests handled concurrently, every store call eventually returning:
\* a suspended handler is eventually resumed.
FairSpec ==
    Init /\ [][FairNext]_vars /\ \A p \in Procs : WF_vars(Continue(p))

\* Requests are handled one at a time: a handler runs to its response
\* before another request is accepted.
SeqNext ==
    \E p \in Procs :
        /\ \A q \in Procs \ {p} : pc[q] = "idle"
        /\ Step(p)

SeqSpec == Init /\ [][SeqNext]_vars

\* Creates, Gets and Lists handled concurrently, with no Update and no
\* Delete among the requests.
CreateNext ==
    \E p \in Procs :
        \/ get_all_users(p)
        \/ create_user(p)
        \/ create_user_insert(p)
        \/ create_user_read(p)
        \/ get_user(p)

CreateSpec == Init /\ [][CreateNext]_vars

\* ------------------------------------------------------------- properties
Idle == \A p \in Procs : pc[p] = "idle"

\* The documents of a collection that hold an email.
WithEmail(coll, email) == {i \in 1..Len(coll) : coll[i].email = email}

IsAlreadyExists(body) ==
    /\ body.status_code = HTTP_409_CONFLICT
    /\ body.exc = "AlreadyExistsException"

IsNotFound(body) ==
    /\ body.status_code = HTTP_404_NOT_FOUND
    /\ body.exc = "NotFoundException"

IsInvalidIdentifier(body) ==
    /\ body.status_code = HTTP_400_BAD_REQUEST
    /\ body.exc = "BadRequestException"

IsSuccess(body) ==
    body.status_code \in {HTTP_200_OK, HTTP_201_CREATED}

\* The request whose handler this step enters, if any: the handler answers
\* at once (no handler changes its place), or it is suspended at a store
\* call.
Entered ==
    {response'.request : x \in IF pc' = pc THEN {1} ELSE {}}
        \cup {req'[p] : p \in {q \in Procs :
                                  pc[q] = "idle" /\ pc'[q] # "idle"}}

Enters(r) == r \in Entered

\* C1: with requests handled one at a time, no two stored user documents
\* hold the same email, whatever Creates, Updates and Deletes ran.
C1_UniqueEmails ==
    \A i, j \in 1..Len(users) :
        i # j => users[i].email # users[j].email

\* Two users are stored and the latest request was an Update that succeeded.
C1_Witness ==
    /\ Len(users) = 2
    /\ response.request.op = "update"
    /\ response.body.status_code = HTTP_200_OK

\* C2: with requests handled one at a time, a Create whose email is held by
\* a stored document (an earlier Create succeeded and no Delete or Update
\* removed the email) fails with AlreadyExists and inserts no document.
C2_SecondCreateFails ==
    [][\A u \in UserInputs :
          (Enters([op |-> "create", user |-> u])
              /\ WithEmail(users, u.email) # {})
          => /\ IsAlreadyExists(response'.body)
             /\ response'.request = [op |-> "create", user |-> u]
             /\ users' = users
             /\ nextOid' = nextOid]_vars

\* A Create was answered AlreadyExists while a document held its email.
C2_Witness ==
    /\ response.request.op = "create"
    /\ IsAlreadyExists(response.body)
    /\ WithEmail(users, response.request.user.email) # {}

\* C3: two overlapping Creates of one email can both pass the uniqueness
\* check and both succeed, leaving two documents with that email (the
\* witness); with no Delete, every Create that has inserted is answered
\* "created" and the store holds at least one document with its email.
C3_CreateRaceKeepsEmail ==
    /\ \A p \in Procs :
          pc[p] = "create_user_read"
          => WithEmail(users, req[p].user.email) # {}
    /\ response.request.op = "create"
          => /\ \/ IsAlreadyExists(response.body)
                \/ response.body.status_code = HTTP_201_CREATED
             /\ WithEmail(users, response.request.user.email) # {}

\* Both Creates were answered "created" and two documents hold the email.
C3_Witness ==
    /\ Idle
    /\ response.request.op = "create"
    /\ response.body.status_code = HTTP_201_CREATED
    /\ Cardinality(WithEmail(users, response.request.user.email)) = 2

\* The requests that name a user by its external id.
IdRequests ==
    {[op |-> o, user_id |-> i] : o \in {"get", "delete"}, i \in ExternalIds}
        \cup {[op |-> "update", user_id |-> i, user |-> u] :
                i \in ExternalIds, u \in UserInputs}

LowerHexChars == {"0","1","2","3","4","5","6","7","8","9",
                  "a","b","c","d","e","f"}

AnyHexChars == LowerHexChars \cup {"A","B","C","D","E","F"}

\* 24 hexadecimal digits, the letters in lower case.
IsLowerHexToken(user_id) ==
    /\ Len(user_id) = HexLen
    /\ \A i \in 1..Len(user_id) : user_id[i] \in LowerHexChars

\* 24 hexadecimal digits, the letters in either case.
IsHexToken(user_id) ==
    /\ Len(user_id) = HexLen
    /\ \A i \in 1..Len(user_id) : user_id[i] \in AnyHexChars

Stored(coll, oid) == \E i \in 1..Len(coll) : coll[i]._id = oid

C5_AbsentIdNotFound ==
    [][\A r \in Entered :
          (r.op \in {"get", "update", "delete"}
              /\ is_valid(r.user_id)
              /\ ~Stored(users, ObjectId(r.user_id)))
          => /\ IsNotFound(response'.body)
             /\ response'.request = r
             /\ users' = users]_vars

\* A Delete of a well-formed id was answered NotFound while other users
\* were stored.
C5_Witness ==
    /\ response.request.op = "delete"
    /\ is_valid(response.request.user_id)
    /\ IsNotFound(response.body)
    /\ users # <<>>
    /\ ~Stored(users, ObjectId(response.request.user_id))

\* Some document other than the one with key oid holds the email.
OtherHolds(coll, email, oid) ==
    \E i \in 1..Len(coll) : coll[i].email = email /\ coll[i]._id # oid

\* C6: with requests handled one at a time, an Update of an existing user
\* is answered AlreadyExists exactly when a stored document with another
\* key holds the supplied email; otherwise it goes on to write and is
\* answered with success, so an Update with the user's own email succeeds.
C6_UpdateEmailConflict ==
    [][/\ \A r \in IdRequests :
             (Enters(r) /\ r.op = "update" /\ is_valid(r.user_id)
                 /\ Stored(users, ObjectId(r.user_id)))
             => \E p \in Procs :
                    pc'[p] = "update_user_email" /\ req'[p] = r
       /\ \A p \in Procs :
          /\ (pc[p] = "update_user_email" /\ pc'[p] # pc[p])
             => /\ Stored(users, ObjectId(req[p].user_id))
                /\ IsAlreadyExists(response'.body)
                   <=> OtherHolds(users, req[p].user.email,
                                  ObjectId(req[p].user_id))
                /\ ~IsAlreadyExists(response'.body)
                   => pc'[p] = "update_user_write"
          /\ (pc[p] = "update_user_write" /\ pc'[p] # pc[p])
             => pc'[p] = "update_user_read"
          /\ (pc[p] = "update_user_read" /\ pc'[p] # pc[p])
             => /\ response'.request = req[p]
                /\ response'.body.status_code = HTTP_200_OK]_vars

\* An Update that supplies the user's own stored email passed the
\* uniqueness check while another user was stored.
C6_Witness ==
    \E p \in Procs :
        /\ pc[p] = "update_user_write"
        /\ Len(users) = 2
        /\ find_by_id(users, ObjectId(req[p].user_id)).email
              = req[p].user.email

\* The ObjectIds the store has assigned so far.
Assigned == {NewOid(n) : n \in 1..(nextOid - 1)}

\* C7: with requests handled one at a time, a Delete of an existing id
\* removes that document and returns deleted_count 1; a removed id never
\* comes back, and every later Get, Update or Delete of it is answered
\* NotFound.
C7_DeleteThenNotFound ==
    [][/\ \A r \in IdRequests :
             (Enters(r) /\ r.op = "delete" /\ is_valid(r.user_id)
                 /\ Stored(users, ObjectId(r.user_id)))
             => \E p \in Procs :
                    pc'[p] = "delete_user_delete" /\ req'[p] = r
       /\ \A p \in Procs :
             (pc[p] = "delete_user_delete" /\ pc'[p] # pc[p])
             => /\ response'.request = req[p]
                /\ response'.body.status_code = HTTP_200_OK
                /\ response'.body.data = [deleted_count |-> 1]
                /\ Stored(users, ObjectId(req[p].user_id))
                /\ ~Stored(users', ObjectId(req[p].user_id))
                /\ Len(users') = Len(users) - 1
       /\ \A oid \in Assigned :
             ~Stored(users, oid) => ~Stored(users', oid)
       /\ \A r \in IdRequests :
             (Enters(r) /\ is_valid(r.user_id)
                 /\ ObjectId(r.user_id) \in Assigned
                 /\ ~Stored(users, ObjectId(r.user_id)))
             => /\ IsNotFound(response'.body)
                /\ response'.request = r]_vars

\* A Delete of an id the store had assigned, and a Delete has removed, was
\* answered NotFound.
C7_Witness ==
    /\ response.request.op = "delete"
    /\ is_valid(response.request.user_id)
    /\ ObjectId(response.request.user_id) \in Assigned
    /\ IsNotFound(response.body)

\* The fields that hold a credential: the stored digest and the plaintext.
SecretFields == {"hashed_password", "password"}

\* C8: the document views returned by List, Get, Create and Update hold
\* neither the stored digest (hashed_password) nor the plaintext secret.
C8_NoDigestInViews ==
    /\ (response.request.op \in {"get", "create", "update"}
          /\ IsSuccess(response.body))
       => DOMAIN response.body.data \cap SecretFields = {}
    /\ response.request.op = "list"
       => \A i \in 1..Len(response.body.data) :
             DOMAIN response.body.data[i] \cap SecretFields = {}

\* C9: List returns one entry per stored document, in storage order, and
\* a count equal to the length of the returned sequence; after N Creates
\* were answered "created", with no Delete and no Create still to answer,
\* it returns exactly N entries.
C9_ListReturnsAll ==
    response.request.op = "list"
    => /\ response.body.status_code = HTTP_200_OK
       /\ response.body.count = Len(response.body.data)
       /\ Len(response.body.data) = Len(users)
       /\ \A i \in 1..Len(users) :
             /\ response.body.data[i]._id = str(users[i]._id)
             /\ response.body.data[i].name = users[i].name
             /\ response.body.data[i].email = users[i].email
       /\ (\A p \in Procs : pc[p] # "create_user_read")
          => Len(response.body.data) = nextOid - 1

\* A List after two Creates were answered returned two entries.
C9_Witness ==
    /\ Idle
    /\ nextOid = 3
    /\ response.request.op = "list"
    /\ response.body.count = 2

\* C10: with requests handled one at a time, a Create whose email is not
\* stored is answered "created" with the supplied name and email and an id;
\* the document stored under that id has that name and email and a digest
\* that differs from the plaintext secret; and a Get of the returned id
\* right after it returns that name and email.
C10_CreateThenGet ==
    /\ [](\A p \in Procs :
             pc[p] = "create_user_read"
             => LET doc == find_by_id(users, inserted_id[p])
                IN  /\ doc # None
                    /\ doc.name = req[p].user.name
                    /\ doc.email = req[p].user.email
                    /\ doc.hashed_password # req[p].user.password)
    /\ [][/\ \A u \in UserInputs :
                (Enters([op |-> "create", user |-> u])
                    /\ WithEmail(users, u.email) = {})
                => \E p \in Procs :
                       /\ pc'[p] = "create_user_insert"
                       /\ req'[p].user = u
          /\ \A p \in Procs :
                (pc[p] = "create_user_insert" /\ pc'[p] # pc[p])
                => pc'[p] = "create_user_read"
          /\ \A p \in Procs :
                (pc[p] = "create_user_read" /\ pc'[p] # pc[p])
                => /\ response'.request = req[p]
                   /\ response'.body.status_code = HTTP_201_CREATED
                   /\ response'.body.data._id = str(inserted_id[p])
                   /\ response'.body.data.name = req[p].user.name
                   /\ response'.body.data.email = req[p].user.email
          /\ (/\ response.request.op = "create"
              /\ response.body.status_code = HTTP_201_CREATED
              /\ Enters([op |-> "get",
                         user_id |-> response.body.data._id]))
             => /\ response'.body.status_code = HTTP_200_OK
                /\ response'.body.data._id = response.body.data._id
                /\ response'.body.data.name = response.request.user.name
                /\ response'.body.data.email
                      = response.request.user.email]_vars

\* A Get of the id a Create had just returned was answered with the
\* created user's name and email.
C10_Witness ==
    /\ response.request.op = "get"
    /\ response.body.status_code = HTTP_200_OK
    /\ response.body.data._id = str(NewOid(2))
    /\ response.body.data.name = "Maria"
    /\ response.body.data.email = "maria@email.com"
    /\ response.body.data.hashed_password # <<"secret2">>
    /\ Len(users) = 2

\* The plaintext secrets a request may carry.
Secrets == {u.password : u \in UserInputs}

\* d is a digest the hasher produces for password, under some salt.
IsDigestOf(d, password) ==
    \E salt \in Salts : d = <<"$2b$12$", salt>> \o password

\* C11: under any interleaving, every stored document holds a digest the
\* hasher produced from a secret, that digest is not a plaintext secret, and
\* the document has no field named password; the document a Create inserts and the document an
\* Update writes hold a digest of the secret that request supplied.
C11_DigestAlwaysStored ==
    /\ [](\A i \in 1..Len(users) :
             /\ DOMAIN users[i] = {"_id", "name", "email", "hashed_password"}
             /\ \E s \in Secrets : IsDigestOf(users[i].hashed_password, s)
             /\ users[i].hashed_password \notin Secrets)
    /\ [][\A p \in Procs :
            /\ (pc[p] = "create_user_insert" /\ pc'[p] # pc[p])
               => /\ Len(users') = Len(users) + 1
                  /\ IsDigestOf(users'[Len(users')].hashed_password,
                                req[p].user.password)
            /\ (pc[p] = "update_user_write" /\ pc'[p] # pc[p])
               => \A i \in 1..Len(users) :
                      users[i]._id = ObjectId(req[p].user_id)
                      => IsDigestOf(users'[i].hashed_password,
                                    req[p].user.password)]_vars

\* While another request is in flight, an Update has written and its target
\* holds a digest of the secret the Update supplied.
C11_Witness ==
    \E p \in Procs :
        /\ pc[p] = "update_user_read"
        /\ \E q \in Procs : q # p /\ pc[q] # "idle"
        /\ \E i \in 1..Len(users) :
              /\ users[i]._id = ObjectId(req[p].user_id)
              /\ IsDigestOf(users[i].hashed_password, req[p].user.password)
        /\ Len(users) = 2

\* The store call with which a handler mutates the store: create_user
\* inserts with its second call, update_user writes with its third,
\* delete_user deletes with its second.
MutationCall(op) ==
    IF op = "update" THEN 3 ELSE 2

\* C12: under any interleaving, every operation that is answered either
\* succeeded, or failed with a classified error (InvalidIdentifier, NotFound
\* or AlreadyExists) before it issued its mutating store call: none is
\* answered a failure after its mutation was committed.
C12_AllOrNothing ==
    (response # NoResponse /\ ~IsSuccess(response.body))
    => /\ \/ IsInvalidIdentifier(response.body)
          \/ IsNotFound(response.body)
          \/ IsAlreadyExists(response.body)
       /\ response.request.op \in {"create", "update", "delete"}
          => response.calls < MutationCall(response.request.op)

IdOps == {"get", "update", "delete"}

\* C13: a malformed id is answered 400, a missing document 404 and an email
\* held by another user 409, at every check a handler makes; and an answer
\* carries 400, 404 or 409 only with the matching exception class and
\* cause, never another status and never a success.
C13_StatusMapping ==
    /\ [](LET body == response.body
              r == response.request
          IN  /\ body.status_code = HTTP_400_BAD_REQUEST
                 <=> (r.op \in IdOps /\ ~is_valid(r.user_id))
              /\ body.status_code = HTTP_400_BAD_REQUEST
                 => body.exc = "BadRequestException"
              /\ body.status_code = HTTP_404_NOT_FOUND
                 => /\ body.exc = "NotFoundException"
                    /\ r.op \in IdOps
                    /\ ~Stored(users, ObjectId(r.user_id))
              /\ body.status_code = HTTP_409_CONFLICT
                 => /\ body.exc = "AlreadyExistsException"
                    /\ r.op \in {"create", "update"}
                    /\ WithEmail(users, r.user.email) # {}
              /\ "exc" \in DOMAIN body
                 => \/ IsInvalidIdentifier(body)
                    \/ IsNotFound(body)
                    \/ IsAlreadyExists(body)
                    \/ body = TypeError)
    /\ [][/\ \A r \in Entered :
                /\ (r.op \in IdOps /\ ~is_valid(r.user_id))
                   => /\ response'.request = r
                      /\ response'.body.status_code = HTTP_400_BAD_REQUEST
                /\ (/\ r.op \in IdOps
                    /\ is_valid(r.user_id)
                    /\ ~Stored(users, ObjectId(r.user_id)))
                   => /\ response'.request = r
                      /\ response'.body.status_code = HTTP_404_NOT_FOUND
                /\ (r.op = "create" /\ WithEmail(users, r.user.email) # {})
                   => /\ response'.request = r
                      /\ response'.body.status_code = HTTP_409_CONFLICT
          /\ \A p \in Procs :
                (/\ pc[p] = "update_user_email"
                 /\ pc'[p] # pc[p]
                 /\ OtherHolds(users, req[p].user.email,
                               ObjectId(req[p].user_id)))
                => /\ response'.request = req[p]
                   /\ response'.body.status_code = HTTP_409_CONFLICT]_vars

\* An Update of a stored user was answered 409 while another stored user
\* held the email it supplied.
C13_Witness ==
    /\ response.request.op = "update"
    /\ response.body.status_code = HTTP_409_CONFLICT
    /\ OtherHolds(users, response.request.user.email,
                  ObjectId(response.request.user_id))
    /\ Stored(users, ObjectId(response.request.user_id))

\* C14: a Delete that passed its existence check is answered with success
\* and a removed-count of 1 if the document is still stored when its delete
\* runs and 0 if not, and the document is gone afterwards; so of two
\* overlapping Deletes of one id that both passed the check, the first to
\* delete reports 1 and leaves the other to report 0. The removed-count is
\* always 0 or 1.
C14_DeleteRace ==
    /\ []((response.request.op = "delete" /\ IsSuccess(response.body))
          => response.body.data.deleted_count \in {0, 1})
    /\ [][\A p \in Procs :
            (pc[p] = "delete_user_delete" /\ pc'[p] # pc[p])
            => LET oid == ObjectId(req[p].user_id)
               IN  /\ response'.request = req[p]
                   /\ response'.body.status_code = HTTP_200_OK
                   /\ response'.body.data.deleted_count
                         = IF Stored(users, oid) THEN 1 ELSE 0
                   /\ ~Stored(users', oid)
                   /\ Len(users') = Len(users)
                         - response'.body.data.deleted_count
                   /\ \A q \in Procs \ {p} :
                         pc[q] = "delete_user_delete" => pc'[q] = pc[q]]_vars

\* The second of two overlapping Deletes of one id was answered with success
\* and a removed-count of 0.
C14_Witness ==
    /\ response.request.op = "delete"
    /\ response.body.status_code = HTTP_200_OK
    /\ response.body.data.deleted_count = 0
    /\ response.calls = 2

\* C15: with requests handled one at a time, an Update that passed its
\* checks rewrites the whole body of its target: the stored name and email
\* become the supplied ones and the stored digest a digest of the supplied
\* secret, the id and every other document staying as they were; and the
\* Update is answered with a view of the document so written.
C15_UpdateReplacesBody ==
    [][\A p \in Procs :
          /\ (pc[p] = "update_user_write" /\ pc'[p] # pc[p])
             => /\ pc'[p] = "update_user_read"
                /\ Len(users') = Len(users)
                /\ \E i \in 1..Len(users) :
                      users[i]._id = ObjectId(req[p].user_id)
                /\ \A i \in 1..Len(users) :
                      IF users[i]._id = ObjectId(req[p].user_id)
                      THEN /\ users'[i]._id = users[i]._id
                           /\ users'[i].name = req[p].user.name
                           /\ users'[i].email = req[p].user.email
                           /\ IsDigestOf(users'[i].hashed_password,
                                         req[p].user.password)
                      ELSE users'[i] = users[i]
          /\ (pc[p] = "update_user_read" /\ pc'[p] # pc[p])
             => /\ response'.request = req[p]
                /\ response'.body.status_code = HTTP_200_OK
                /\ response'.body.data._id = str(ObjectId(req[p].user_id))
                /\ response'.body.data.name = req[p].user.name
                /\ response'.body.data.email = req[p].user.email
                /\ \E i \in 1..Len(users) :
                      /\ users[i]._id = ObjectId(req[p].user_id)
                      /\ users[i].name = req[p].user.name
                      /\ users[i].email = req[p].user.email
                      /\ IsDigestOf(users[i].hashed_password,
                                    req[p].user.password)]_vars

\* An Update of Juan's document to Maria's name, email and secret was
\* answered with the new name and email, and the document holds them.
C15_Witness ==
    /\ response.request.op = "update"
    /\ response.body.status_code = HTTP_200_OK
    /\ response.body.data.name = "Maria"
    /\ response.body.data._id = str(NewOid(1))
    /\ Len(users) = 1
    /\ users[1].email = "maria@email.com"
    /\ IsDigestOf(users[1].hashed_password, <<"secret2">>)

\* The ids of the documents of a collection, in storage order.
Ids(coll) == [i \in 1..Len(coll) |-> coll[i]._id]

\* C16: under any interleaving, no two stored documents have the same id;
\* the id a Create's insert assigns is held by no stored document and was
\* assigned to none before, and the insert changes no other document's id;
\* and an Update's write leaves every document's id as it was.
C16_KeysUniqueImmutable ==
    /\ [](\A i, j \in 1..Len(users) :
             i # j => users[i]._id # users[j]._id)
    /\ [][\A p \in Procs :
            /\ (pc[p] = "create_user_insert" /\ pc'[p] # pc[p])
               => /\ Len(users') = Len(users) + 1
                  /\ SubSeq(Ids(users'), 1, Len(users)) = Ids(users)
                  /\ inserted_id'[p] = users'[Len(users')]._id
                  /\ ~Stored(users, inserted_id'[p])
                  /\ inserted_id'[p] \notin Assigned
            /\ (pc[p] = "update_user_write" /\ pc'[p] # pc[p])
               => Ids(users') = Ids(users)]_vars

\* Two documents with different ids are stored, and an Update has written
\* the second while another request is in flight.
C16_Witness ==
    /\ Len(users) = 2
    /\ users[1]._id # users[2]._id
    /\ \E p \in Procs :
          /\ pc[p] = "update_user_read"
          /\ ObjectId(req[p].user_id) = users[2]._id
          /\ users[2].name = req[p].user.name
          /\ \E q \in Procs : q # p /\ pc[q] # "idle"

\* C17: the uniqueness check and the write of an Update are separate steps:
\* an Update that passed the check writes the supplied email into its
\* target whatever the other documents hold by then, and is answered with
\* success if its target is still stored; likewise a Create that passed its
\* check inserts. So an Update changing its email, overlapped by a Create
\* or an Update that writes the same email after the check, succeeds and
\* leaves two documents with one email (the witness is the state from which
\* that write is taken).
C17_UpdateCheckThenWrite ==
    [][\A p \in Procs :
          /\ (/\ pc[p] = "update_user_write"
              /\ pc'[p] # pc[p]
              /\ Stored(users, ObjectId(req[p].user_id)))
             => /\ pc'[p] = "update_user_read"
                /\ \E i \in 1..Len(users') :
                      /\ users'[i]._id = ObjectId(req[p].user_id)
                      /\ users'[i].email = req[p].user.email
                /\ WithEmail(users, req[p].user.email)
                      \subseteq WithEmail(users', req[p].user.email)
          /\ (/\ pc[p] = "update_user_read"
              /\ pc'[p] # pc[p]
              /\ Stored(users, ObjectId(req[p].user_id)))
             => /\ response'.request = req[p]
                /\ response'.body.status_code = HTTP_200_OK
          /\ (pc[p] = "create_user_insert" /\ pc'[p] # pc[p])
             => /\ users'[Len(users')].email = req[p].user.email
                /\ WithEmail(users, req[p].user.email)
                      \subseteq WithEmail(users', req[p].user.email)]_vars

\* An Update that changes its target's email has passed the uniqueness
\* check and is about to write, and meanwhile another request has stored
\* that email in another document.
C17_Witness ==
    \E p \in Procs :
        /\ pc[p] = "update_user_write"
        /\ \E i \in 1..Len(users) :
              /\ users[i]._id = ObjectId(req[p].user_id)
              /\ users[i].email # req[p].user.email
        /\ Cardinality(WithEmail(users, req[p].user.email)) = 1
        /\ \E q \in Procs \ {p} :
              /\ pc[q] \in {"create_user_read", "update_user_read"}
              /\ req[q].user.email = req[p].user.email

\* C18: an Update checks the id format, then the existence of its target,
\* then the uniqueness of the email: with a malformed id it is answered
\* InvalidIdentifier before any store call, whatever email it supplies, and
\* with a well-formed id that no document has it is answered NotFound after
\* one store call, even when another user holds the supplied email; the
\* email lookup is made only for a stored target.
C18_UpdateCheckOrder ==
    /\ [](\A p \in Procs :
             pc[p] = "update_user_email" => calls[p] = 1)
    /\ [][\A r \in Entered :
            r.op = "update"
            => IF ~is_valid(r.user_id)
               THEN /\ response'.request = r
                    /\ IsInvalidIdentifier(response'.body)
                    /\ response'.calls = 0
               ELSE IF ~Stored(users, ObjectId(r.user_id))
                    THEN /\ response'.request = r
                         /\ IsNotFound(response'.body)
                         /\ response'.calls = 1
                    ELSE \E p \in Procs :
                            /\ pc'[p] = "update_user_email"
                            /\ req'[p] = r]_vars

\* An Update of a well-formed id that no document has was answered NotFound
\* while a stored user held the email it supplied.
C18_Witness ==
    /\ response.request.op = "update"
    /\ IsNotFound(response.body)
    /\ is_valid(response.request.user_id)
    /\ WithEmail(users, response.request.user.email) # {}

\* C19: if every store call eventually returns, every operation that has
\* started is eventually answered; and a suspended handler can always take
\* its next step, whatever the other requests are doing: no operation
\* waits on another.
C19_EveryOperationResponds ==
    /\ [](\A p \in Procs : pc[p] # "idle" => ENABLED Continue(p))
    /\ \A p \in Procs : (pc[p] # "idle") ~> (pc[p] = "idle")

\* Two Updates of one user are both suspended at their last store call.
C19_Witness ==
    /\ \A p \in Procs : pc[p] = "update_user_read"
    /\ \A p, q \in Procs : req[p].user_id = req[q].user_id

\* C20 as stated: every NotFound names the resource "User" and carries the
\* external id the caller supplied, and every AlreadyExists names the
\* resource "User" and carries the email the caller supplied.
C20_UserAndEmail ==
    /\ IsNotFound(response.body)
       => /\ response.body.resource = "User"
          /\ response.body.identifier = response.request.user_id
    /\ IsAlreadyExists(response.body)
       => /\ response.body.resource = "User"
          /\ response.body.identifier = response.request.user.email

\* C20, amended: every NotFound names the resource "Usuario" and carries
\* the external id exactly as the caller supplied it, and every
\* AlreadyExists names the resource "Usuario" and carries the text "email "
\* followed by the email the caller supplied.
C20_ErrorContext ==
    /\ IsNotFound(response.body)
       => /\ response.body.resource = "Usuario"
          /\ response.body.identifier = response.request.user_id
    /\ IsAlreadyExists(response.body)
       => /\ response.body.resource = "Usuario"
          /\ response.body.identifier
                = "email " \o response.request.user.email

\* A Create of a stored email was answered AlreadyExists with the context
\* "email maria@email.com".
C20_Witness ==
    /\ response.request.op = "create"
    /\ IsAlreadyExists(response.body)
    /\ response.body.resource = "Usuario"
    /\ response.body.identifier = "email maria@email.com"

\* The three classified failures.
IsClassified(body) ==
    \/ IsInvalidIdentifier(body)
    \/ IsNotFound(body)
    \/ IsAlreadyExists(body)

\* C21: a step that changes the store (or assigns an id) is never a step of
\* Get or List, never the step in which an operation is answered
\* InvalidIdentifier, NotFound or AlreadyExists, and never one of the checks
\* that precede a mutating store call; and an operation answered one of
\* these failures had not reached its mutating store call. So reads and
\* failed operations leave every stored document as it was.
C21_ReadsAndFailuresFrame ==
    /\ []((IsClassified(response.body)
            /\ response.request.op \in {"create", "update", "delete"})
          => response.calls < MutationCall(response.request.op))
    /\ [][(users' # users \/ nextOid' # nextOid)
          => /\ response'.request.op \notin {"get", "list"}
             /\ ~IsClassified(response'.body)
             /\ \A p \in Procs :
                   pc'[p] # pc[p]
                   => pc'[p] \notin {"create_user_insert",
                                     "update_user_email",
                                     "update_user_write",
                                     "delete_user_delete"}]_vars

\* While another request is in flight and two users are stored, an Update
\* was answered AlreadyExists after its two lookups.
C21_Witness ==
    /\ response.request.op = "update"
    /\ IsAlreadyExists(response.body)
    /\ response.calls = 2
    /\ Len(users) = 2
    /\ \E p \in Procs : pc[p] # "idle"

\* The documents of a collection whose key is not oid, in storage order.
Others(coll, oid) == SelectSeq(coll, LAMBDA doc : doc._id # oid)

\* C22: under any interleaving, every step of an Update or a Delete leaves
\* the documents with another key as they were, in number, order and
\* fields, and adds no document; an Update's write that finds its target
\* deleted changes nothing (the user is not re-created); and only a
\* Delete's delete step removes a document, and only the one with its key.
C22_OnlyTargetTouched ==
    [][/\ \A r \in Entered :
             r.op \in {"update", "delete"} => users' = users
       /\ \A p \in Procs :
          (pc'[p] # pc[p] /\ req[p].op \in {"update", "delete"})
          => LET oid == ObjectId(req[p].user_id)
             IN  /\ Others(users', oid) = Others(users, oid)
                 /\ Len(users') <= Len(users)
                 /\ ~Stored(users, oid) => users' = users
                 /\ pc[p] # "delete_user_delete"
                    => Len(users') = Len(users)
                 /\ pc[p] \notin {"update_user_write", "delete_user_delete"}
                    => users' = users]_vars

\* An Update has passed its checks and is about to write, its target has
\* been deleted meanwhile, and another user is stored.
C22_Witness ==
    \E p \in Procs :
        /\ pc[p] = "update_user_write"
        /\ ~Stored(users, ObjectId(req[p].user_id))
        /\ Len(users) = 1
        /\ response.request.op = "delete"
        /\ response.body.data.deleted_count = 1

====
